---- MODULE Spec2Model ----
(***************************************************************************)
(* A model of llamabot's SimpleBot (src/llamabot/bot/simplebot.py) and of  *)
(* the repository-chat command loop (src/llamabot/cli/repo.py).            *)
(*                                                                         *)
(* Python values that can be None, a str or a message object are records   *)
(* tagged by their class in the field cls, so that "is it text or a        *)
(* message" is something a formula can ask.  Text itself is a TLA+ string  *)
(* and + on str is \o.                                                     *)
(***************************************************************************)
EXTENDS Integers, Sequences, FiniteSets, TLC

VARIABLES
    args,           \* the arguments handed to SimpleBot(...)
    self,           \* the SimpleBot object (None before __init__ has run)
    generate_mock,  \* the MagicMock put in place of self.generate_response, or None
    pc,             \* the line SimpleBot's code is at
    human_message,  \* the argument of the current (or last) __call__
    messages,       \* __call__'s / generate_response's local `messages`
    request,        \* the keyword arguments of the last client...create(...) call
    payload,        \* the completed payload's text of a stream=False response
    chunk,          \* the loop variable of line 78 (its delta.content)
    ai_message,     \* generate_response's local `ai_message`
    response,       \* __call__'s local `response`
    result,         \* the value the last __call__ returned
    exc,            \* the exception the last __call__ raised
    chunks,         \* history: the delta.content of every chunk read in this call
    printed,        \* history: the arguments of print() in this call, in order
    recorded,       \* history: the arguments of autorecord() in this call, in order
    clientFault,    \* history: the fault the client raised in this call
    ngenerate,      \* history: invocations of generate_response in this call
    nrequests,      \* history: client requests issued in this call
    calls,          \* history: number of __call__ invocations started
    chat_pc,        \* the line chat() of cli/repo.py is at
    query,          \* chat()'s local `query`
    queries,        \* history: every query uniform_prompt() returned
    forwarded       \* history: every query passed to bot(...)

botvars == <<args, self, generate_mock, pc, human_message, messages, request,
             payload, chunk, ai_message, response, result, exc, chunks, printed,
             recorded, clientFault, ngenerate, nrequests, calls>>

chatvars == <<chat_pc, query, queries, forwarded>>

vars == <<botvars, chatvars>>

----------------------------------------------------------------------------
(* Bounds of the model. *)

MaxChunks == 4
MaxCalls == 2
MaxQueries == 3

(* The inputs the environment draws from. *)

SystemPrompts == {"", "Be brief."}
Temperatures == {"0.0", "0.7"}
ModelNames == {"gpt-4", "mistral/mistral-medium"}
HumanMessages == {"", "Hi"}
Fragments == {"Hel", "lo", " world"}
PayloadTexts == {"", "Hi there"}
ClientFaults == {"APIError", "APITimeoutError"}
RecorderFaults == {"RecorderError"}
Queries == {"what is this repo?", "who wrote it?", ""}
QuitInputs == {"quit"}

----------------------------------------------------------------------------
(* Python values. *)

None == [cls |-> "None"]

Str(t) == [cls |-> "str", val |-> t]

IsNone(v) == v.cls = "None"

IsStr(v) == v.cls = "str"

\* str + str
StrAdd(a, b) == Str(a.val \o b.val)

(* llamabot.components.messages: a message is a role and a content. *)

SystemMessage(content) == [cls |-> "SystemMessage", role |-> "system", content |-> content]

HumanMessage(content) == [cls |-> "HumanMessage", role |-> "user", content |-> content]

AIMessage(content) == [cls |-> "AIMessage", role |-> "assistant", content |-> content]

IsAIMessage(v) == v.cls = "AIMessage"

\* m.model_dump(): the message as a plain {role, content} record
model_dump(m) == [role |-> m.role, content |-> m.content]

\* make_client(model_name): the client bound to the model's backend
make_client(model_name) == [cls |-> "Client", model_name |-> model_name]

\* An exception travelling up through frames that have no try/except.
Unhandled(e) == e

Exception(type, origin) == [cls |-> "Exception", type |-> type, origin |-> origin]

----------------------------------------------------------------------------
(* SimpleBot *)

Init ==
    /\ args \in [system_prompt : SystemPrompts, temperature : Temperatures,
                 model_name : ModelNames, streaming : BOOLEAN]
    /\ self = None
    /\ generate_mock = None
    /\ pc = "new"
    /\ human_message = None
    /\ messages = <<>>
    /\ request = None
    /\ payload = None
    /\ chunk = None
    /\ ai_message = None
    /\ response = None
    /\ result = None
    /\ exc = None
    /\ chunks = <<>>
    /\ printed = <<>>
    /\ recorded = <<>>
    /\ clientFault = None
    /\ ngenerate = 0
    /\ nrequests = 0
    /\ calls = 0
    /\ chat_pc = "setup"
    /\ query = None
    /\ queries = <<>>
    /\ forwarded = <<>>


\* The frame of __call__ (and of generate_response under it) is gone.
ExitFrame ==
    /\ messages' = <<>>
    /\ payload' = None
    /\ chunk' = None
    /\ ai_message' = None
    /\ response' = None

\* An exception e leaves __call__: no frame catches it.
Raise(e) ==
    /\ exc' = Unhandled(e)
    /\ result' = None
    /\ pc' = "idle"
    /\ ExitFrame

\* a bug __init__ could have: the streaming argument dropped for its default
SimpleBotInit_DefaultStreaming ==
    /\ pc = "new"
    /\ self' = [cls |-> "SimpleBot",
                system_prompt |-> SystemMessage(Str(args.system_prompt)),
                client |-> make_client(args.model_name),
                model_name |-> args.model_name,
                temperature |-> args.temperature,
                streaming |-> TRUE]
    /\ pc' = "idle"
    /\ UNCHANGED <<args, generate_mock, human_message, messages, request, payload,
                   chunk, ai_message, response, result, exc, chunks, printed,
                   recorded, clientFault, ngenerate, nrequests, calls, chatvars>>

\* __init__: lines 45-49.  make_client is the only statement that can fail.
SimpleBotInit ==
    /\ pc = "new"
    /\ \/ /\ self' = [cls |-> "SimpleBot",
                      system_prompt |-> SystemMessage(Str(args.system_prompt)),
                      client |-> make_client(args.model_name),
                      model_name |-> args.model_name,
                      temperature |-> args.temperature,
                      streaming |-> args.streaming]
          /\ pc' = "idle"
       \/ /\ self' = None
          /\ pc' = "init_raised"
    /\ UNCHANGED <<args, generate_mock, human_message, messages, request, payload,
                   chunk, ai_message, response, result, exc, chunks, printed,
                   recorded, clientFault, ngenerate, nrequests, calls, chatvars>>

\* test_simple_bot_call, lines 56-58: bot.generate_response = MagicMock(),
\* with return_value AIMessage(content="Test response").
MockGenerateResponse ==
    /\ pc = "idle"
    /\ calls = 0
    /\ IsNone(generate_mock)
    /\ generate_mock' = AIMessage(Str("Test response"))
    /\ UNCHANGED <<args, self, pc, human_message, messages, request, payload, chunk,
                   ai_message, response, result, exc, chunks, printed, recorded,
                   clientFault, ngenerate, nrequests, calls, chatvars>>

\* a bug __call__ could have: the human message put before the system prompt
CallMessages_HumanFirst(h) == <<HumanMessage(h), self.system_prompt>>

\* __call__, lines 58-61: the message list
CallMessages(h) == <<self.system_prompt, HumanMessage(h)>>

\* __call__, lines 58-62: build the message list and enter generate_response
\* (the mock, when the test has put one in its place).
Call ==
    /\ pc = "idle"
    /\ calls < MaxCalls
    /\ \E h \in HumanMessages :
          /\ human_message' = Str(h)
          /\ messages' = CallMessages(Str(h))
    /\ calls' = calls + 1
    /\ ngenerate' = 0
    /\ nrequests' = 0
    /\ request' = None
    /\ payload' = None
    /\ chunk' = None
    /\ ai_message' = None
    /\ response' = None
    /\ result' = None
    /\ exc' = None
    /\ chunks' = <<>>
    /\ printed' = <<>>
    /\ recorded' = <<>>
    /\ clientFault' = None
    /\ pc' = IF IsNone(generate_mock) THEN "create" ELSE "mock"
    /\ UNCHANGED <<args, self, generate_mock, chatvars>>

\* line 62 with generate_response mocked: the mock returns its return_value.
CallMock ==
    /\ pc = "mock"
    /\ ngenerate' = ngenerate + 1
    /\ response' = generate_mock
    /\ pc' = "autorecord"
    /\ UNCHANGED <<args, self, generate_mock, human_message, messages, request,
                   payload, chunk, ai_message, result, exc, chunks, printed,
                   recorded, clientFault, nrequests, calls, chatvars>>

\* line 69: [m.model_dump() for m in messages]
Dumped(msgs) == [i \in 1..Len(msgs) |-> model_dump(msgs[i])]

\* lines 70-75: the keyword arguments of self.client.chat.completions.create
CreateKwargs(msgs) ==
    [cls |-> "dict",
     model |-> self.model_name,
     messages |-> msgs,
     temperature |-> self.temperature,
     stream |-> self.streaming]

\* generate_response, lines 69-75: dump the messages and issue the request.
\* The client answers with a stream, with a completed payload, or raises.
Create ==
    /\ pc = "create"
    /\ ngenerate' = ngenerate + 1
    /\ messages' = Dumped(messages)
    /\ request' = CreateKwargs(messages')
    /\ nrequests' = nrequests + 1
    /\ \/ /\ self.streaming
          /\ ai_message' = Str("")
          /\ pc' = "for"
          /\ UNCHANGED <<payload, clientFault, human_message, chunk, response,
                         result, exc>>
       \/ /\ ~self.streaming
          /\ \E t \in PayloadTexts : payload' = Str(t)
          /\ pc' = "text"
          /\ UNCHANGED <<ai_message, clientFault, human_message, chunk, response,
                         result, exc>>
    /\ UNCHANGED <<args, self, generate_mock, chunks, printed, recorded, calls,
                   chatvars>>

\* line 70: the client raises when the request is issued.
CreateRaises ==
    /\ pc = "create"
    /\ ngenerate' = ngenerate + 1
    /\ request' = CreateKwargs(Dumped(messages))
    /\ nrequests' = nrequests + 1
    /\ \E f \in ClientFaults :
          /\ clientFault' = Exception(f, "client")
          /\ Raise(clientFault')
    /\ UNCHANGED <<args, self, generate_mock, human_message, chunks, printed,
                   recorded, calls, chatvars>>

\* lines 78-79: the stream yields its next chunk; a chunk whose content is None
\* is skipped.
ForNext ==
    /\ pc = "for"
    /\ Len(chunks) < MaxChunks
    /\ \E c \in {None} \cup {Str(f) : f \in Fragments} :
          /\ chunk' = c
          /\ chunks' = Append(chunks, c)
          /\ pc' = IF ~IsNone(c) THEN "print" ELSE "for"
    /\ UNCHANGED <<args, self, generate_mock, human_message, messages, request,
                   payload, ai_message, response, result, exc, printed, recorded,
                   clientFault, ngenerate, nrequests, calls, chatvars>>

\* a bug the loop could have: a fault of the stream caught, and what has been
\* accumulated so far returned as the response
ChunkRaises_Partial ==
    /\ pc = "for"
    /\ \E f \in ClientFaults : clientFault' = Exception(f, "client")
    /\ ai_message' = AIMessage(ai_message)
    /\ response' = ai_message'
    /\ pc' = "autorecord"
    /\ UNCHANGED <<args, self, generate_mock, human_message, messages, request,
                   payload, chunk, result, exc, chunks, printed, recorded,
                   ngenerate, nrequests, calls, chatvars>>

\* line 78: the stream raises while the next chunk is read.
ChunkRaises ==
    /\ pc = "for"
    /\ \E f \in ClientFaults :
          /\ clientFault' = Exception(f, "client")
          /\ Raise(clientFault')
    /\ UNCHANGED <<args, self, generate_mock, human_message, request, chunks,
                   printed, recorded, ngenerate, nrequests, calls, chatvars>>

\* a bug line 80 could have: nothing is printed while the stream is read
PrintStep_Silent ==
    /\ pc = "print"
    /\ pc' = "add"
    /\ UNCHANGED <<args, self, generate_mock, human_message, messages, request,
                   payload, chunk, ai_message, response, result, exc, chunks,
                   printed, recorded, clientFault, ngenerate, nrequests, calls,
                   chatvars>>

\* line 80: print(chunk.choices[0].delta.content, end="")
PrintStep ==
    /\ pc = "print"
    /\ printed' = Append(printed, chunk)
    /\ pc' = "add"
    /\ UNCHANGED <<args, self, generate_mock, human_message, messages, request,
                   payload, chunk, ai_message, response, result, exc, chunks,
                   recorded, clientFault, ngenerate, nrequests, calls, chatvars>>

\* a bug line 81 could have: the fragment put in front of the accumulator
AddStep_Prepend ==
    /\ pc = "add"
    /\ ai_message' = StrAdd(chunk, ai_message)
    /\ pc' = "for"
    /\ UNCHANGED <<args, self, generate_mock, human_message, messages, request,
                   payload, chunk, response, result, exc, chunks, printed,
                   recorded, clientFault, ngenerate, nrequests, calls, chatvars>>

\* line 81: ai_message += chunk.choices[0].delta.content
AddStep ==
    /\ pc = "add"
    /\ ai_message' = StrAdd(ai_message, chunk)
    /\ pc' = "for"
    /\ UNCHANGED <<args, self, generate_mock, human_message, messages, request,
                   payload, chunk, response, result, exc, chunks, printed,
                   recorded, clientFault, ngenerate, nrequests, calls, chatvars>>

\* lines 78, 82-83: the stream is exhausted; the accumulated text is wrapped in
\* an AIMessage and returned to __call__.
StreamEnd ==
    /\ pc = "for"
    /\ ai_message' = AIMessage(ai_message)
    /\ response' = ai_message'
    /\ pc' = "autorecord"
    /\ UNCHANGED <<args, self, generate_mock, human_message, messages, request,
                   payload, chunk, result, exc, chunks, printed, recorded,
                   clientFault, ngenerate, nrequests, calls, chatvars>>

\* a bug line 85 could have: the text wrapped as the streaming branch wraps it
ReturnText_Wrapped ==
    /\ pc = "text"
    /\ response' = AIMessage(payload)
    /\ pc' = "autorecord"
    /\ UNCHANGED <<args, self, generate_mock, human_message, messages, request,
                   payload, chunk, ai_message, result, exc, chunks, printed,
                   recorded, clientFault, ngenerate, nrequests, calls, chatvars>>

\* line 85: return response.choices[0].text
ReturnText ==
    /\ pc = "text"
    /\ response' = payload
    /\ pc' = "autorecord"
    /\ UNCHANGED <<args, self, generate_mock, human_message, messages, request,
                   payload, chunk, ai_message, result, exc, chunks, printed,
                   recorded, clientFault, ngenerate, nrequests, calls, chatvars>>

\* line 63: autorecord(human_message, response)
Autorecord ==
    /\ pc = "autorecord"
    /\ recorded' = Append(recorded, <<human_message, response>>)
    /\ pc' = "return"
    /\ UNCHANGED <<args, self, generate_mock, human_message, messages, request,
                   payload, chunk, ai_message, response, result, exc, chunks,
                   printed, clientFault, ngenerate, nrequests, calls, chatvars>>

\* line 63: autorecord is invoked and raises; line 63 stands in no try block.
AutorecordRaises ==
    /\ pc = "autorecord"
    /\ recorded' = Append(recorded, <<human_message, response>>)
    /\ \E f \in RecorderFaults : Raise(Exception(f, "recorder"))
    /\ UNCHANGED <<args, self, generate_mock, human_message, request, chunks, printed, clientFault,
                   ngenerate, nrequests, calls, chatvars>>

\* line 64: return AIMessage(content=response)
Return ==
    /\ pc = "return"
    /\ result' = AIMessage(response)
    /\ exc' = None
    /\ pc' = "idle"
    /\ ExitFrame
    /\ UNCHANGED <<args, self, generate_mock, human_message, request, chunks,
                   printed, recorded, clientFault, ngenerate, nrequests, calls,
                   chatvars>>

\* line 64 when response is not text: the message class declares its content as
\* text, and may refuse anything else.
ReturnRaises ==
    /\ pc = "return"
    /\ ~IsStr(response)
    /\ Raise(Exception("ValidationError", "AIMessage"))
    /\ UNCHANGED <<args, self, generate_mock, human_message, request, chunks,
                   printed, recorded, clientFault, ngenerate, nrequests, calls,
                   chatvars>>

Next ==
    \/ SimpleBotInit
    \/ MockGenerateResponse
    \/ Call
    \/ CallMock
    \/ Create
    \/ CreateRaises
    \/ ForNext
    \/ ChunkRaises
    \/ PrintStep
    \/ AddStep
    \/ StreamEnd
    \/ ReturnText
    \/ Autorecord
    \/ AutorecordRaises
    \/ Return
    \/ ReturnRaises

Spec == Init /\ [][Next]_vars

----------------------------------------------------------------------------
(* chat(), the repository-chat command of cli/repo.py *)

\* .utils.exit_if_asked(query): leaves the program when the query is a
\* recognized quit input, and returns otherwise.
exit_if_asked(q) == q.val \in QuitInputs

InitChat ==
    /\ Init
    /\ args = [system_prompt |-> "", temperature |-> "0.0",
               model_name |-> "mistral/mistral-medium", streaming |-> TRUE]

\* lines 31-54: clone the repository, collect the source files, build the bot.
ChatSetup ==
    /\ chat_pc = "setup"
    /\ chat_pc' = "prompt"
    /\ UNCHANGED <<query, queries, forwarded, botvars>>

\* a bug the loop could have: the query handed to the bot with no exit check
ChatPrompt_NoExitCheck ==
    /\ chat_pc = "prompt"
    /\ Len(queries) < MaxQueries
    /\ \E q \in Queries \cup QuitInputs :
          /\ query' = Str(q)
          /\ queries' = Append(queries, Str(q))
    /\ chat_pc' = "bot"
    /\ UNCHANGED <<forwarded, botvars>>

\* line 57: query = uniform_prompt()
ChatPrompt ==
    /\ chat_pc = "prompt"
    /\ Len(queries) < MaxQueries
    /\ \E q \in Queries \cup QuitInputs :
          /\ query' = Str(q)
          /\ queries' = Append(queries, Str(q))
    /\ chat_pc' = "exit_if_asked"
    /\ UNCHANGED <<forwarded, botvars>>

\* line 58: exit_if_asked(query)
ChatExitIfAsked ==
    /\ chat_pc = "exit_if_asked"
    /\ chat_pc' = IF exit_if_asked(query) THEN "exited" ELSE "bot"
    /\ UNCHANGED <<query, queries, forwarded, botvars>>

\* line 59: bot(query)
ChatBot ==
    /\ chat_pc = "bot"
    /\ forwarded' = Append(forwarded, query)
    /\ chat_pc' = "echo"
    /\ UNCHANGED <<query, queries, botvars>>

\* line 59: bot(query) raises; nothing in chat() catches it.
ChatBotRaises ==
    /\ chat_pc = "bot"
    /\ forwarded' = Append(forwarded, query)
    /\ chat_pc' = "raised"
    /\ UNCHANGED <<query, queries, botvars>>

\* line 60: typer.echo("\n\n"), then back to the head of `while True`
ChatEcho ==
    /\ chat_pc = "echo"
    /\ chat_pc' = "prompt"
    /\ UNCHANGED <<query, queries, forwarded, botvars>>

NextChat ==
    \/ ChatSetup
    \/ ChatPrompt
    \/ ChatExitIfAsked
    \/ ChatBot
    \/ ChatBotRaises
    \/ ChatEcho

SpecChat == InitChat /\ [][NextChat]_vars

----------------------------------------------------------------------------
(* What the claims speak of. *)

RECURSIVE JoinFragments(_)
\* The concatenation, in order, of the contents that are not None.
JoinFragments(cs) ==
    IF cs = <<>> THEN ""
    ELSE (IF IsNone(Head(cs)) THEN "" ELSE Head(cs).val) \o JoinFragments(Tail(cs))

\* The contents that are not None, in order.
NonNull(cs) == SelectSeq(cs, LAMBDA c : ~IsNone(c))

Front(q) == SubSeq(q, 1, Len(q) - 1)

IsException(e) == e.cls = "Exception"

\* A call of the bot has ended (it returned or it raised).
CallEnded == pc = "idle" /\ calls > 0

\* The real generate_response is running in streaming mode, or has just
\* returned to line 63.
Streaming == pc \in {"for", "print", "add", "autorecord", "return"}
             /\ IsNone(generate_mock) /\ self.streaming

----------------------------------------------------------------------------
(* C1: with generate_response mocked to return a fixed AI message R, every   *)
(* call returns an AI message whose content is the text of R (not R nested   *)
(* in another message), generate_response is invoked exactly once and the    *)
(* recorder exactly once.  Stated for the calls in which the recorder does   *)
(* not fault.                                                                *)
C1_MockedCallReturnsContent ==
    (CallEnded /\ ~IsNone(generate_mock)
       /\ ~(IsException(exc) /\ exc.origin = "recorder"))
    => /\ IsAIMessage(result)
       /\ IsStr(result.content)
       /\ result.content = generate_mock.content
       /\ ngenerate = 1
       /\ Len(recorded) = 1

(* C2: in streaming mode generate_response returns an AI message whose       *)
(* content is the concatenation, in arrival order, of the chunks' non-null   *)
(* fragments; a null chunk adds nothing and neither stops nor resets the     *)
(* accumulation.                                                             *)
C2_StreamingConcatenation ==
    /\ (Streaming /\ pc = "for") => ai_message = Str(JoinFragments(chunks))
    /\ (Streaming /\ pc = "autorecord")
       => response = AIMessage(Str(JoinFragments(chunks)))

C2_Witness ==
    /\ pc = "autorecord"
    /\ IsNone(generate_mock)
    /\ chunks = <<Str("Hel"), Str("lo"), None, Str(" world")>>
    /\ response = AIMessage(Str("Hello world"))

(* C3: once the client has raised in a call (when the request is issued or   *)
(* while a chunk is read), the call has ended raising that very fault, has   *)
(* returned nothing, has issued one request only and has not invoked the     *)
(* recorder.                                                                 *)
C3_ClientFaultPropagates ==
    ~IsNone(clientFault)
    => /\ pc = "idle"
       /\ exc = clientFault
       /\ exc.type \in ClientFaults
       /\ IsNone(result)
       /\ nrequests = 1
       /\ recorded = <<>>

C3_Witness ==
    /\ ~IsNone(clientFault)
    /\ IsException(exc)
    /\ exc.type = "APITimeoutError"
    /\ Len(printed) >= 1
    /\ Len(chunks) >= 2

(* C4: a fault of the recorder is contained: no call ends raising it, and a  *)
(* call whose generation succeeded returns its AI message all the same.      *)
C4_RecorderFaultContained ==
    CallEnded => ~(IsException(exc) /\ exc.origin = "recorder")

(* C5: a successful call, streaming or not, hands the recorder the pair      *)
(* (human_message, response_text), response_text being plain text, and       *)
(* returns an AI message whose content is that same text.                    *)
C5_RecorderGetsTextAndCallerGetsIt ==
    (CallEnded /\ IsNone(generate_mock) /\ IsNone(clientFault)
       /\ ~(IsException(exc) /\ exc.origin = "recorder"))
    => /\ Len(recorded) = 1
       /\ recorded[1][1] = human_message
       /\ IsStr(recorded[1][2])
       /\ IsAIMessage(result)
       /\ result.content = recorded[1][2]

C7_RequestCarriesBothMessages ==
    ~IsNone(request)
    => /\ Len(request.messages) = 2
       /\ request.messages[1] = [role |-> "system", content |-> self.system_prompt.content]
       /\ request.messages[2] = [role |-> "user", content |-> human_message]
       /\ request.model = self.model_name
       /\ request.temperature = self.temperature
       /\ request.stream = self.streaming

C7_Witness ==
    /\ ~IsNone(request)
    /\ human_message = Str("")
    /\ request.messages[2].content = Str("")
    /\ request.messages[1].content = Str("Be brief.")

(* C8: in non-streaming mode generate_response returns the text of the       *)
(* completed payload as plain text, not as a message, and prints nothing.    *)
C8_NonStreamingReturnsText ==
    (pc = "autorecord" /\ IsNone(generate_mock) /\ ~self.streaming)
    => /\ IsStr(response)
       /\ response = payload
       /\ printed = <<>>

C8_Witness ==
    /\ pc = "autorecord"
    /\ IsNone(generate_mock)
    /\ ~self.streaming
    /\ response = Str("Hi there")

(* C9: in streaming mode every non-null fragment is printed exactly once,    *)
(* when it arrives and before the next chunk is read: whenever a chunk is    *)
(* about to be read, what has been printed is the accumulator; the recorder  *)
(* is invoked only once the stream is exhausted, and before the call         *)
(* returns.  (Inside the loop body, between lines 80 and 81, the fragment    *)
(* just printed is the one about to be added.)                               *)
C9_PrintedAsArrived ==
    /\ (Streaming /\ pc = "print")
       => /\ printed = NonNull(Front(chunks))
          /\ chunk = chunks[Len(chunks)]
    /\ (Streaming /\ pc = "add")
       => /\ printed = NonNull(chunks)
          /\ Str(JoinFragments(printed)) = StrAdd(ai_message, chunk)
    /\ (Streaming /\ pc = "for")
       => /\ printed = NonNull(chunks)
          /\ Str(JoinFragments(printed)) = ai_message
    /\ (Streaming /\ pc \in {"for", "print", "add", "autorecord"}) => recorded = <<>>
    /\ (Streaming /\ pc = "return")
       => /\ Len(recorded) = 1
          /\ printed = NonNull(chunks)
    /\ (CallEnded /\ IsAIMessage(result)) => Len(recorded) = 1

C9_Witness ==
    /\ pc = "return"
    /\ IsNone(generate_mock)
    /\ Len(chunks) = 3
    /\ printed = <<Str("Hel"), Str("lo")>>
    /\ Len(recorded) = 1

(* C10: the chat loop checks each query for exit before it invokes the bot:  *)
(* every query read before a quit input is handed to the bot exactly once,   *)
(* in input order, the quit input never is, and the loop ends on a quit      *)
(* input (or a fault) only.                                                  *)
C10_ChatLoop ==
    /\ \A i \in 1..Len(forwarded) : ~exit_if_asked(forwarded[i])
    /\ chat_pc \in {"setup", "prompt", "echo", "raised"} => forwarded = queries
    /\ chat_pc \in {"exit_if_asked", "bot", "exited"}
       => /\ queries # <<>>
          /\ forwarded = Front(queries)
          /\ query = queries[Len(queries)]
    /\ chat_pc = "exited" => exit_if_asked(query)
    /\ chat_pc = "bot" => ~exit_if_asked(query)

C10_Witness ==
    /\ chat_pc = "exited"
    /\ Len(forwarded) = 2
    /\ queries[3] = Str("quit")

====
